---- MODULE Spec2Model ----
(***************************************************************************)
(* Section 75 claims service: the claims table, the session-guarded HTTP   *)
(* handlers of server/routes.ts and the DatabaseStorage statements they    *)
(* await.  A handler runs synchronously up to its single awaited database  *)
(* statement, so every handler is two steps: the request step (middleware, *)
(* validation, building the statement) and the database step that applies  *)
(* the statement atomically and sends the response.                        *)
(*                                                                         *)
(* Time is a pair <<day, ms>>: days since 1970-01-01 and milliseconds in   *)
(* the day (a millisecond count of the epoch exceeds 32-bit integers).     *)
(* Amounts are in thousandths of a pound.                                  *)
(***************************************************************************)
EXTENDS Integers, Sequences, FiniteSets, TLC

VARIABLES now, session, claims, pending, last, created, result,
          uploader, dashboard

\* the state held in the browsers: the upload dialog of the intake page and
\* the claim lists of the processors' dashboards
client == <<uploader, dashboard>>

vars == <<now, session, claims, pending, last, created, result, uploader, dashboard>>

----------------------------------------------------------------------------
(* Bounds of the model *)

MaxClaims == 2

\* start of the run, 2026-06-01T00:02:03.456Z
StartTime == <<20605, 123456>>
BaseDay == StartTime[1]

----------------------------------------------------------------------------
(* Time *)

MsPerDay == 86400000
SliceMod == 1000000
SixYearsDays == 6 * 365

AddTime(t, d) ==
    LET ms == t[2] + d[2]
    IN  <<t[1] + d[1] + (ms \div MsPerDay), ms % MsPerDay>>

\* the clock readings of a run: the start, one millisecond later, and 10^6 ms
\* after the start (another millisecond with the same last six digits)
Instants == { StartTime, AddTime(StartTime, <<0, 1>>), AddTime(StartTime, <<0, SliceMod>>) }

TimeLess(a, b) == a[1] < b[1] \/ (a[1] = b[1] /\ a[2] < b[2])

\* a <= b on instants
TimeLeq(a, b) == a[1] < b[1] \/ (a[1] = b[1] /\ a[2] <= b[2])

\* Date.prototype.getFullYear of an instant (UTC calendar)
GetFullYear(t) ==
    LET z   == t[1] + 719468
        era == z \div 146097
        doe == z - era * 146097
        yoe == (doe - (doe \div 1460) + (doe \div 36524) - (doe \div 146096)) \div 365
        doy == doe - (365 * yoe + (yoe \div 4) - (yoe \div 100))
        mp  == (5 * doy + 2) \div 153
        m   == IF mp < 10 THEN mp + 3 ELSE mp - 9
    IN  yoe + era * 400 + (IF m <= 2 THEN 1 ELSE 0)

\* String(Date.now()).slice(-6): the epoch millisecond count modulo 10^6
\* (86400000 = 400000 mod 10^6 and 5 * 400000 = 0 mod 10^6)
LastSixDigits(t) == ((t[1] % 5) * 400000 + t[2]) % SliceMod

----------------------------------------------------------------------------
(* Users and sessions *)

Users == [ john  |-> [role |-> "Customer"],
           sarah |-> [role |-> "Customer"],
           mike |-> [role |-> "Claim Processor"],
           emma |-> [role |-> "Claim Processor"] ]

Clients == DOMAIN Users

\* a caller is a browser holding one of the users' credentials, or nobody's
Callers == Clients \cup {"anon"}

NoSession == [userId |-> "none", role |-> "none"]

\* variant: any authenticated session passes (requireAuth used for requireRole)
RequireRoleAuthOnly(roles, sess) ==
    IF sess.userId = "none" THEN 401 ELSE 0

\* variant: a wrong role is answered like a missing session
RequireRoleOneCode(roles, sess) ==
    IF sess.userId = "none" \/ sess.role \notin roles THEN 401 ELSE 0

\* variant: the role is compared without asking for a session first
RequireRoleNoSessionCheck(roles, sess) ==
    IF sess.userId # "none" /\ sess.role \notin roles THEN 403 ELSE 0

\* requireRole(roles): 0 when the request may proceed, else the status sent
RequireRole(roles, sess) ==
    IF sess.userId = "none" THEN 401
    ELSE IF sess.role \notin roles THEN 403
    ELSE 0

----------------------------------------------------------------------------
(* Eligibility and classification *)

\* variant: change-of-mind is listed among the valid reasons
ValidReasonsWithChangeOfMind ==
    {"faulty-goods", "misrepresentation", "non-delivery", "supplier-failure", "change-of-mind"}

ValidReasons == {"faulty-goods", "misrepresentation", "non-delivery", "supplier-failure"}

\* the number parseFloat yields for a string that does not start with a
\* number; it stands outside the amounts, and every comparison with it is false
NaN == -2147483647

Geq(a, b) == a # NaN /\ b # NaN /\ a >= b
Leq(a, b) == a # NaN /\ b # NaN /\ a <= b
Less(a, b) == a # NaN /\ b # NaN /\ a < b

\* variant: the first interval is open at 100 pounds
CalculateClaimClassOpenFloor(amount) ==
    IF Less(100000, amount) /\ Less(amount, 1000000) THEN "Class 1"
    ELSE IF Geq(amount, 1000000) /\ Less(amount, 5000000) THEN "Class 2"
    ELSE IF Geq(amount, 5000000) /\ Less(amount, 10000000) THEN "Class 3"
    ELSE IF Geq(amount, 10000000) /\ Leq(amount, 30000000) THEN "Class 4"
    ELSE "Unclassified"

\* variant: the last interval is half-open like the others
CalculateClaimClassHalfOpen(amount) ==
    IF Geq(amount, 100000) /\ Less(amount, 1000000) THEN "Class 1"
    ELSE IF Geq(amount, 1000000) /\ Less(amount, 5000000) THEN "Class 2"
    ELSE IF Geq(amount, 5000000) /\ Less(amount, 10000000) THEN "Class 3"
    ELSE IF Geq(amount, 10000000) /\ Less(amount, 30000000) THEN "Class 4"
    ELSE "Unclassified"

CalculateClaimClass(amount) ==
    IF Geq(amount, 100000) /\ Less(amount, 1000000) THEN "Class 1"
    ELSE IF Geq(amount, 1000000) /\ Less(amount, 5000000) THEN "Class 2"
    ELSE IF Geq(amount, 5000000) /\ Less(amount, 10000000) THEN "Class 3"
    ELSE IF Geq(amount, 10000000) /\ Leq(amount, 30000000) THEN "Class 4"
    ELSE "Unclassified"

\* variant: the value bounds are exclusive
EligibilityChecksExclusiveValue(amount, date, reason, at) ==
    LET sixYearsAgo == <<at[1] - SixYearsDays, at[2]>>
    IN  [ isPurchaseOfGoodsOrServices |-> TRUE,
          isNotRestrictedTransaction  |-> TRUE,
          wasCreditCardUsed           |-> TRUE,
          wasNotCashOrTransfer        |-> TRUE,
          overHundredPounds           |-> Less(100000, amount),
          underThirtyThousandPounds   |-> Less(amount, 30000000),
          withinSixYears              |-> TimeLeq(sixYearsAgo, date),
          isValidReason               |-> reason \in ValidReasons,
          isNotChangeOfMind           |-> reason # "change-of-mind" ]

\* variant: six calendar years, counting the leap day
EligibilityChecksCalendarYears(amount, date, reason, at) ==
    LET sixYearsAgo == <<at[1] - (SixYearsDays + 1), at[2]>>
    IN  [ isPurchaseOfGoodsOrServices |-> TRUE,
          isNotRestrictedTransaction  |-> TRUE,
          wasCreditCardUsed           |-> TRUE,
          wasNotCashOrTransfer        |-> TRUE,
          overHundredPounds           |-> Geq(amount, 100000),
          underThirtyThousandPounds   |-> Leq(amount, 30000000),
          withinSixYears              |-> TimeLeq(sixYearsAgo, date),
          isValidReason               |-> reason \in ValidReasons,
          isNotChangeOfMind           |-> reason # "change-of-mind" ]

EligibilityChecks(amount, date, reason, at) ==
    LET sixYearsAgo == <<at[1] - SixYearsDays, at[2]>>
    IN  [ isPurchaseOfGoodsOrServices |-> TRUE,
          isNotRestrictedTransaction  |-> TRUE,
          wasCreditCardUsed           |-> TRUE,
          wasNotCashOrTransfer        |-> TRUE,
          overHundredPounds           |-> Geq(amount, 100000),
          underThirtyThousandPounds   |-> Leq(amount, 30000000),
          withinSixYears              |-> TimeLeq(sixYearsAgo, date),
          isValidReason               |-> reason \in ValidReasons,
          isNotChangeOfMind           |-> reason # "change-of-mind" ]

\* variant: the verdict leaves the age of the transaction out
IsEligibleIgnoresAge(checks) ==
    /\ checks.isPurchaseOfGoodsOrServices
    /\ checks.isNotRestrictedTransaction
    /\ checks.wasCreditCardUsed
    /\ checks.wasNotCashOrTransfer
    /\ checks.overHundredPounds
    /\ checks.underThirtyThousandPounds
    /\ checks.isValidReason
    /\ checks.isNotChangeOfMind

\* the conjunction performEligibilityCheck forms of the nine checks
IsEligible(checks) ==
    /\ checks.isPurchaseOfGoodsOrServices
    /\ checks.isNotRestrictedTransaction
    /\ checks.wasCreditCardUsed
    /\ checks.wasNotCashOrTransfer
    /\ checks.overHundredPounds
    /\ checks.underThirtyThousandPounds
    /\ checks.withinSixYears
    /\ checks.isValidReason
    /\ checks.isNotChangeOfMind

PerformEligibilityCheck(amount, date, reason, at) ==
    LET checks == EligibilityChecks(amount, date, reason, at)
    IN  [ checks |-> checks, isEligible |-> IsEligible(checks) ]

----------------------------------------------------------------------------
(* Request inputs *)

Absent == "<absent>"

\* status values a caller puts in the body of PATCH .../status, in the
\* lifecycle runs and in the concurrent runs; "escalated" is a string outside
\* the state set, Absent a body without status
LifecycleStatuses == {"approved", "escalated", Absent}
RaceStatuses == {"approved", "rejected"}

DefinedStatuses == {"pending", "reviewing", "approved", "rejected", "under-review"}

NotAnArray == <<"<not-an-array>">>

\* transaction facts: an eligible purchase, and one that rounds to 100.00
\* pounds, older than six years, with an excluded reason
Facts ==
    { [amount |-> 2500000, date |-> <<BaseDay - 137, 0>>, reason |-> "faulty-goods",
       files |-> <<"receipt.pdf">>],
      [amount |-> 99999, date |-> <<BaseDay - 2600, 0>>, reason |-> "change-of-mind",
       files |-> <<>>] }

CustomerFields ==
    [ customerName  |-> "Sarah Johnson",
      accountNumber |-> "ACC-789456123",
      merchantName  |-> "Premium Electronics Ltd",
      description   |-> "Faulty laptop" ]

AllChecks(b) ==
    [ isPurchaseOfGoodsOrServices |-> b, isNotRestrictedTransaction |-> b,
      wasCreditCardUsed |-> b, wasNotCashOrTransfer |-> b,
      overHundredPounds |-> b, underThirtyThousandPounds |-> b,
      withinSixYears |-> b, isValidReason |-> b, isNotChangeOfMind |-> b ]

\* what the intake form (or any caller) sends alongside the facts
ClientComputed ==
    { [status |-> "approved", claimClass |-> "Class 4", isEligible |-> TRUE,
       eligibilityChecks |-> AllChecks(TRUE)],
      [status |-> Absent, claimClass |-> "Unclassified", isEligible |-> FALSE,
       eligibilityChecks |-> AllChecks(FALSE)] }

Body(v, f, cc) ==
    [ valid |-> v, customer |-> CustomerFields, transactionAmount |-> f.amount,
      transactionDate |-> f.date, reason |-> f.reason, status |-> cc.status,
      claimClass |-> cc.claimClass, isEligible |-> cc.isEligible,
      eligibilityChecks |-> cc.eligibilityChecks, evidenceFiles |-> f.files ]

ClaimBodies == { Body(v, f, cc) : v \in BOOLEAN, f \in Facts, cc \in ClientComputed }

RaceBodies == { Body(TRUE, f, cc) : f \in {x \in Facts : x.amount = 2500000},
                                    cc \in {x \in ClientComputed : x.status = Absent} }

\* submissions of the intake runs: the eligible purchase, and one with a
\* negative amount dated thirty days after the start of the run
IntakeBodies ==
    RaceBodies \cup
    { Body(TRUE, [amount |-> -50000, date |-> <<BaseDay + 30, 0>>,
                  reason |-> "faulty-goods", files |-> <<>>], cc) :
          cc \in {x \in ClientComputed : x.status = Absent} }

\* an uploaded list: two references in the order sent, the second one empty
UploadedFiles == <<"photo.jpg", "">>

\* what callers send to the eligibility check.  Amounts as parseFloat reads
\* them: not a number, negative, zero, and the values at and next to the
\* thresholds 100, 1000, 5000, 10000 and 30000 pounds
CheckAmounts ==
    { NaN, -100000, 0, 99999, 100000, 999999, 1000000, 4999999, 5000000,
      9999999, 10000000, 30000000, 30000001 }

\* dates: recent; 2190 days before the start of the run to the millisecond,
\* one millisecond earlier and later; six calendar years (2191 days) before
CheckDates ==
    { <<BaseDay - 137, 0>>,
      <<BaseDay - SixYearsDays, StartTime[2]>>,
      <<BaseDay - SixYearsDays, StartTime[2] - 1>>,
      <<BaseDay - SixYearsDays, StartTime[2] + 1>>,
      <<BaseDay - SixYearsDays - 1, StartTime[2]>> }

\* reasons: the four accepted ones, the excluded one, one unknown to the
\* evaluator, and none
CheckReasons ==
    { "faulty-goods", "misrepresentation", "non-delivery", "supplier-failure",
      "change-of-mind", "other", Absent }

----------------------------------------------------------------------------
(* The claims table *)

None == [op |-> "none"]

NoResponse ==
    [caller |-> "none", op |-> "none", id |-> 0, code |-> 0, prior |-> "<absent>", overlap |-> FALSE]

\* no eligibility check has been answered
NoResult ==
    [ amount |-> 0, date |-> <<0, 0>>, reason |-> Absent, at |-> <<0, 0>>,
      checks |-> AllChecks(FALSE), isEligible |-> FALSE, claimClass |-> Absent ]

Ids == 1 .. Len(claims)
RequestIds == 1 .. MaxClaims

\* numeric(10,2): the stored amount is rounded to whole pence, half away from zero
RoundToPence(amount) ==
    IF amount >= 0 THEN ((amount + 5) \div 10) * 10
    ELSE 0 - (((0 - amount) + 5) \div 10) * 10

ClaimNumber(at) == <<"CLM", GetFullYear(at), LastSixDigits(at)>>

\* DatabaseStorage.getClaimById
GetClaimById(id) == IF id \in Ids THEN claims[id] ELSE None


\* storage.createClaim up to its awaited insert: the claim number is taken
\* from the clock when the call is made
InsertValues(insertClaim, at) ==
    [ claimNumber       |-> ClaimNumber(at),
      customer          |-> insertClaim.customer,
      transactionAmount |-> insertClaim.transactionAmount,
      transactionDate   |-> insertClaim.transactionDate,
      reason            |-> insertClaim.reason,
      status            |-> insertClaim.status,
      claimClass        |-> insertClaim.claimClass,
      eligibilityChecks |-> insertClaim.eligibilityChecks,
      isEligible        |-> insertClaim.isEligible,
      evidenceFiles     |-> insertClaim.evidenceFiles ]

\* the row the insert statement stores: column defaults and numeric scale
InsertedRow(values, at) ==
    [ values EXCEPT !.transactionAmount = RoundToPence(@) ] @@
    [ createdAt |-> at, updatedAt |-> at ]

\* variant: the column has no unique constraint
NoUniqueConstraint(tbl, values) == FALSE

\* claim_number UNIQUE
UniqueViolation(tbl, values) ==
    \E i \in 1 .. Len(tbl) : tbl[i].claimNumber = values.claimNumber

\* variant: only a claim still in the entry state is updated
UpdateClaimStatusOnlyPending(tbl, id, status, updatedAt) ==
    [ i \in 1 .. Len(tbl) |->
        IF i = id /\ tbl[i].status = "pending"
          THEN [ tbl[i] EXCEPT !.status = status, !.updatedAt = updatedAt ]
        ELSE tbl[i] ]

\* variant: the WHERE clause is lost, every row is updated
UpdateClaimStatusNoWhere(tbl, id, status, updatedAt) ==
    [ i \in 1 .. Len(tbl) |-> [ tbl[i] EXCEPT !.status = status, !.updatedAt = updatedAt ] ]

\* variant: a row that already has the status is left alone
UpdateClaimStatusIfChanged(tbl, id, status, updatedAt) ==
    [ i \in 1 .. Len(tbl) |->
        IF i = id /\ tbl[i].status # status
          THEN [ tbl[i] EXCEPT !.status = status, !.updatedAt = updatedAt ]
        ELSE tbl[i] ]

\* variant: a transition table that refuses a move back to the entry state
UpdateClaimStatusForwardOnly(tbl, id, status, updatedAt) ==
    [ i \in 1 .. Len(tbl) |->
        IF i = id /\ status # "pending"
          THEN [ tbl[i] EXCEPT !.status = status, !.updatedAt = updatedAt ]
        ELSE tbl[i] ]

\* variant: a claim that reaches approved is taken out of the table
UpdateClaimStatusArchives(tbl, id, status, updatedAt) ==
    IF id \in 1 .. Len(tbl) /\ status = "approved"
      THEN SubSeq(tbl, 1, id - 1) \o SubSeq(tbl, id + 1, Len(tbl))
      ELSE [ i \in 1 .. Len(tbl) |->
               IF i = id THEN [ tbl[i] EXCEPT !.status = status, !.updatedAt = updatedAt ]
               ELSE tbl[i] ]

\* variant: the row is written back with the evidence column at its default
UpdateClaimStatusResetsEvidence(tbl, id, status, updatedAt) ==
    [ i \in 1 .. Len(tbl) |->
        IF i = id THEN [ tbl[i] EXCEPT !.status = status, !.updatedAt = updatedAt,
                                       !.evidenceFiles = <<>> ]
        ELSE tbl[i] ]

\* UPDATE claims SET status, updated_at WHERE id = :id
UpdateClaimStatus(tbl, id, status, updatedAt) ==
    [ i \in 1 .. Len(tbl) |->
        IF i = id THEN [ tbl[i] EXCEPT !.status = status, !.updatedAt = updatedAt ]
        ELSE tbl[i] ]

\* variant: the update also re-derives the class from the stored amount
UpdateClaimEvidenceFilesReclassify(tbl, id, files, updatedAt) ==
    [ i \in 1 .. Len(tbl) |->
        IF i = id THEN [ tbl[i] EXCEPT !.evidenceFiles = files, !.updatedAt = updatedAt,
                                       !.claimClass = CalculateClaimClass(tbl[i].transactionAmount) ]
        ELSE tbl[i] ]

\* variant: an upload puts the claim back into the entry state
UpdateClaimEvidenceFilesReopen(tbl, id, files, updatedAt) ==
    [ i \in 1 .. Len(tbl) |->
        IF i = id THEN [ tbl[i] EXCEPT !.evidenceFiles = files, !.updatedAt = updatedAt,
                                       !.status = "pending" ]
        ELSE tbl[i] ]

\* variant: the supplied references are added to the stored ones
UpdateClaimEvidenceFilesAppend(tbl, id, files, updatedAt) ==
    [ i \in 1 .. Len(tbl) |->
        IF i = id THEN [ tbl[i] EXCEPT !.evidenceFiles = @ \o files, !.updatedAt = updatedAt ]
        ELSE tbl[i] ]

\* UPDATE claims SET evidence_files, updated_at WHERE id = :id
UpdateClaimEvidenceFiles(tbl, id, files, updatedAt) ==
    [ i \in 1 .. Len(tbl) |->
        IF i = id THEN [ tbl[i] EXCEPT !.evidenceFiles = files, !.updatedAt = updatedAt ]
        ELSE tbl[i] ]

----------------------------------------------------------------------------
(* Handlers *)

Ops == { pending[c] : c \in Callers } \ {None}

Quiet == \A c \in Callers : pending[c] = None

Send(c, op) == pending' = [pending EXCEPT ![c] = op]
Done(c) == pending' = [pending EXCEPT ![c] = None]

\* the response sent to caller c; prior and overlap are kept for the record:
\* the status the row had before a status update, and whether the update was
\* requested while an update of the same claim to another status was in flight
\* (for an evidence update: while a status update of the same claim was)
Respond(c, op, id, code, prior, overlap) ==
    last' = [caller |-> c, op |-> op, id |-> id, code |-> code,
             prior |-> prior, overlap |-> overlap]

\* variant: the validated body is spread last and overrides the computed values
ClaimDataBodyWins(body, at) ==
    [ body EXCEPT !.status = IF body.status = Absent THEN "pending" ELSE body.status ]

\* the claim data POST /api/claims hands to storage.createClaim
ClaimData(body, at) ==
    LET amount == body.transactionAmount
        res    == PerformEligibilityCheck(amount, body.transactionDate, body.reason, at)
    IN  [ body EXCEPT !.claimClass = CalculateClaimClass(amount),
                      !.eligibilityChecks = res.checks,
                      !.isEligible = res.isEligible,
                      !.status = "pending" ]

\* the upload dialog before any file is selected
NoUploads ==
    [ phase |-> "idle", files |-> <<>>, uploadingFiles |-> <<>>, next |-> 0,
      busy |-> FALSE, outcomes |-> <<>>, completions |-> <<>>, alert |-> "" ]

\* a dashboard whose claims query has no data yet
NotLoaded == <<>>

\* the sample users have logged in; nobody has submitted a claim
Init ==
    /\ now = StartTime
    /\ session = [c \in Callers |->
                    IF c \in Clients THEN [userId |-> c, role |-> Users[c].role]
                    ELSE NoSession]
    /\ claims = <<>>
    /\ pending = [c \in Callers |-> None]
    /\ last = NoResponse
    /\ created = <<>>
    /\ result = NoResult
    /\ uploader = NoUploads
    /\ dashboard = [c \in Callers |-> NotLoaded]

Tick(t) ==
    /\ TimeLess(now, t)
    /\ now' = t
    /\ UNCHANGED <<session, claims, pending, last, created, result, client>>

\* POST /api/claims up to the awaited insert
CreateClaim(c, body) ==
    LET deny == RequireRole({"Customer"}, session[c])
    IN  /\ pending[c] = None
        /\ Len(claims) + Cardinality({o \in Ops : o.op = "insertClaim"}) < MaxClaims
        /\ IF deny # 0
              THEN Respond(c, "createClaim", 0, deny, Absent, FALSE) /\ UNCHANGED pending
           ELSE IF ~body.valid
              THEN Respond(c, "createClaim", 0, 400, Absent, FALSE) /\ UNCHANGED pending
           ELSE /\ Send(c, [ op     |-> "insertClaim",
                             values |-> InsertValues(ClaimData(body, now), now),
                             amount |-> body.transactionAmount,
                             evalAt |-> now ])
                /\ last' = NoResponse
        /\ UNCHANGED <<now, session, claims, created, result, client>>

\* the insert statement and the response of POST /api/claims
DbInsertClaim(c) ==
    LET op == pending[c]
    IN  /\ op.op = "insertClaim"
        /\ Done(c)
        /\ IF UniqueViolation(claims, op.values)
              THEN /\ Respond(c, "createClaim", 0, 500, Absent, FALSE)
                   /\ UNCHANGED <<claims, created>>
              ELSE /\ claims' = Append(claims, InsertedRow(op.values, now))
                   /\ created' = Append(created,
                          [ row |-> InsertedRow(op.values, now),
                            amount |-> op.amount, evalAt |-> op.evalAt ])
                   /\ Respond(c, "createClaim", Len(claims) + 1, 200, Absent, FALSE)
        /\ UNCHANGED <<now, session, result, client>>

\* variant: the body is validated before the role is looked at
SetStatusValidatesFirst(c, id, status) ==
    LET deny == RequireRole({"Claim Processor"}, session[c])
    IN  /\ pending[c] = None
        /\ IF status = Absent
              THEN Respond(c, "setStatus", id, 400, Absent, FALSE) /\ UNCHANGED pending
           ELSE IF deny # 0
              THEN Respond(c, "setStatus", id, deny, Absent, FALSE) /\ UNCHANGED pending
           ELSE /\ Send(c, [ op |-> "updateClaimStatus", id |-> id, status |-> status,
                             updatedAt |-> now, overlap |-> FALSE ])
                /\ last' = NoResponse
        /\ UNCHANGED <<now, session, claims, created, result, client>>

\* PATCH /api/claims/:id/status up to the awaited update
SetStatus(c, id, status) ==
    LET deny == RequireRole({"Claim Processor"}, session[c])
    IN  /\ pending[c] = None
        /\ IF deny # 0
              THEN Respond(c, "setStatus", id, deny, Absent, FALSE) /\ UNCHANGED pending
           ELSE IF status = Absent
              THEN Respond(c, "setStatus", id, 400, Absent, FALSE) /\ UNCHANGED pending
           ELSE /\ Send(c, [ op |-> "updateClaimStatus", id |-> id, status |-> status,
                             updatedAt |-> now,
                             overlap |-> \E o \in Ops :
                                 /\ o.op = "updateClaimStatus" /\ o.id = id
                                 /\ o.status # status ])
                /\ last' = NoResponse
        /\ UNCHANGED <<now, session, claims, created, result, client>>

\* the update statement and the response of PATCH /api/claims/:id/status
DbUpdateClaimStatus(c) ==
    LET op == pending[c]
    IN  /\ op.op = "updateClaimStatus"
        /\ Done(c)
        /\ claims' = UpdateClaimStatus(claims, op.id, op.status, op.updatedAt)
        /\ IF op.id \in Ids
              THEN Respond(c, "setStatus", op.id, 200, claims[op.id].status, op.overlap)
              ELSE Respond(c, "setStatus", op.id, 404, Absent, op.overlap)
        /\ UNCHANGED <<now, session, created, result, client>>

\* PATCH /api/claims/:id/evidence up to the awaited update (no role guard)
AttachEvidence(c, id, files) ==
    /\ pending[c] = None
    /\ IF files = NotAnArray
          THEN Respond(c, "attachEvidence", id, 400, Absent, FALSE) /\ UNCHANGED pending
          ELSE /\ Send(c, [ op |-> "updateClaimEvidenceFiles", id |-> id,
                            files |-> files, updatedAt |-> now,
                            overlap |-> \E o \in Ops :
                                o.op = "updateClaimStatus" /\ o.id = id ])
               /\ last' = NoResponse
    /\ UNCHANGED <<now, session, claims, created, result, client>>

\* the update statement and the response of PATCH /api/claims/:id/evidence
DbUpdateClaimEvidenceFiles(c) ==
    LET op == pending[c]
    IN  /\ op.op = "updateClaimEvidenceFiles"
        /\ Done(c)
        /\ claims' = UpdateClaimEvidenceFiles(claims, op.id, op.files, op.updatedAt)
        /\ IF op.id \in Ids
              THEN Respond(c, "attachEvidence", op.id, 200, Absent, op.overlap)
              ELSE Respond(c, "attachEvidence", op.id, 404, Absent, op.overlap)
        /\ UNCHANGED <<now, session, created, result, client>>

\* GET /api/claims/:id up to the awaited select (no session required)
GetClaim(c, id) ==
    /\ pending[c] = None
    /\ Send(c, [ op |-> "getClaimById", id |-> id ])
    /\ last' = NoResponse
    /\ UNCHANGED <<now, session, claims, created, result, client>>

\* the select and the response of GET /api/claims/:id; the response is
\* recorded with the status of the claim it carries
DbGetClaimById(c) ==
    LET op == pending[c]
    IN  /\ op.op = "getClaimById"
        /\ Done(c)
        /\ IF GetClaimById(op.id) # None
              THEN Respond(c, "getClaim", op.id, 200, GetClaimById(op.id).status, FALSE)
              ELSE Respond(c, "getClaim", op.id, 404, Absent, FALSE)
        /\ UNCHANGED <<now, session, claims, created, result, client>>

\* GET /api/claims up to the awaited select
GetClaims(c) ==
    LET deny == RequireRole({"Claim Processor"}, session[c])
    IN  /\ pending[c] = None
        /\ IF deny # 0
              THEN Respond(c, "getClaims", 0, deny, Absent, FALSE) /\ UNCHANGED pending
              ELSE Send(c, [ op |-> "getAllClaims" ]) /\ last' = NoResponse
        /\ UNCHANGED <<now, session, claims, created, result, client>>

\* the select and the response of GET /api/claims
DbGetAllClaims(c) ==
    /\ pending[c].op = "getAllClaims"
    /\ Done(c)
    /\ Respond(c, "getClaims", 0, 200, Absent, FALSE)
    /\ UNCHANGED <<now, session, claims, created, result, client>>

\* POST /api/eligibility-check: no session is required and nothing is
\* awaited; the result is evaluated at the time of the request
EligibilityCheck(c, amount, date, reason) ==
    /\ pending[c] = None
    /\ IF reason = Absent
          THEN Respond(c, "eligibilityCheck", 0, 400, Absent, FALSE) /\ UNCHANGED result
          ELSE LET res == PerformEligibilityCheck(amount, date, reason, now)
               IN  /\ result' = [ amount |-> amount, date |-> date, reason |-> reason,
                                  at |-> now, checks |-> res.checks,
                                  isEligible |-> res.isEligible,
                                  claimClass |-> CalculateClaimClass(amount) ]
                   /\ Respond(c, "eligibilityCheck", 0, 200, Absent, FALSE)
    /\ UNCHANGED <<now, session, claims, pending, created, client>>

\* POST /api/auth/login with the caller's credentials, right or mistyped; the
\* users table does not change, so the lookup and the session save are one step
Login(c, passwordOk) ==
    /\ pending[c] = None
    /\ IF c \in Clients /\ passwordOk
          THEN /\ session' = [session EXCEPT ![c] = [userId |-> c, role |-> Users[c].role]]
               /\ Respond(c, "login", 0, 200, Absent, FALSE)
          ELSE /\ Respond(c, "login", 0, 401, Absent, FALSE)
               /\ UNCHANGED session
    /\ UNCHANGED <<now, claims, pending, created, result, client>>

\* POST /api/auth/logout: the session is destroyed
Logout(c) ==
    /\ pending[c] = None
    /\ session' = [session EXCEPT ![c] = NoSession]
    /\ Respond(c, "logout", 0, 200, Absent, FALSE)
    /\ UNCHANGED <<now, claims, pending, created, result, client>>

\* the props claims-intake gives the uploader
MaxNumberOfFiles == 10

MaxFileSize == 10485760

FileNames ==
    << "f01.pdf", "f02.pdf", "f03.pdf", "f04.pdf", "f05.pdf", "f06.pdf",
       "f07.pdf", "f08.pdf", "f09.pdf", "f10.pdf", "f11.pdf" >>

\* what the file input can hand over: n files of one kilobyte each, or a
\* selection holding a file over the size limit
Selection(n) == [i \in 1 .. n |-> [ name |-> FileNames[i], size |-> 1024 ]]

Selections ==
    { Selection(n) : n \in {0, 1, 2, 3, MaxNumberOfFiles + 1} }
      \cup { << [ name |-> "f01.pdf", size |-> 1024 ],
                [ name |-> "scan.tiff", size |-> MaxFileSize + 1 ] >> }

\* the URL onGetUploadParameters answers for the i-th file of the selection
UploadURL(i) == <<"upload", i>>

NoURL == <<>>

\* prev.map(f => f.file === file ? { ...f, ...change } : f): a new array of
\* new objects, the objects of prev are left as they were
MapStatus(prev, name, status, url) ==
    [i \in 1 .. Len(prev) |->
        IF prev[i].name = name
          THEN [prev[i] EXCEPT !.status = status, !.uploadURL = url]
          ELSE prev[i]]

UploaderUnchanged == UNCHANGED <<now, session, claims, pending, last, created, result, dashboard>>

HandleFileSelect(sel) ==
    /\ uploader.phase \in {"idle", "done"}
    /\ IF Len(sel) > MaxNumberOfFiles
         THEN uploader' = [uploader EXCEPT !.alert = "Maximum files allowed"]
         ELSE IF \E i \in 1 .. Len(sel) : sel[i].size > MaxFileSize
         THEN uploader' = [uploader EXCEPT !.alert = "Files too large"]
         ELSE LET newFiles == [i \in 1 .. Len(sel) |->
                                 [ name |-> sel[i].name, status |-> "pending",
                                   uploadURL |-> NoURL ]]
              IN  uploader' = [ phase |-> IF Len(sel) = 0 THEN "waiting" ELSE "uploading",
                                files |-> newFiles,
                                uploadingFiles |-> newFiles,
                                next |-> 1,
                                busy |-> FALSE,
                                outcomes |-> <<>>,
                                completions |-> <<>>,
                                alert |-> "" ]
    /\ UploaderUnchanged

\* startUploads, one turn of the loop up to its first await: the file is
\* shown as uploading
BeginUpload ==
    /\ uploader.phase = "uploading"
    /\ ~uploader.busy
    /\ uploader' = [uploader EXCEPT
           !.busy = TRUE,
           !.uploadingFiles = MapStatus(@, uploader.files[uploader.next].name,
                                        "uploading", NoURL)]
    /\ UploaderUnchanged

\* the rest of the turn: the URL request and the PUT have answered (ok) or
\* one of them failed; after the last file the completion timer is set
EndUpload(ok) ==
    LET i == uploader.next
        name == uploader.files[i].name
    IN  /\ uploader.phase = "uploading"
        /\ uploader.busy
        /\ uploader' = [uploader EXCEPT
               !.busy = FALSE,
               !.uploadingFiles = IF ok THEN MapStatus(@, name, "completed", UploadURL(i))
                                        ELSE MapStatus(@, name, "error", NoURL),
               !.outcomes = Append(@, ok),
               !.next = i + 1,
               !.phase = IF i = Len(uploader.files) THEN "waiting" ELSE "uploading"]
        /\ UploaderUnchanged

\* the timer callback of startUploads: it filters the array startUploads was
\* called with and hands the completed ones to onComplete
CompleteTimeout ==
    LET completedFiles == SelectSeq(uploader.files, LAMBDA f : f.status = "completed")
    IN  /\ uploader.phase = "waiting"
        /\ uploader' = [uploader EXCEPT
               !.phase = "done",
               !.completions =
                   IF Len(completedFiles) > 0
                     THEN Append(@, [i \in 1 .. Len(completedFiles) |->
                                       [ name |-> completedFiles[i].name,
                                         uploadURL |-> completedFiles[i].uploadURL ]])
                     ELSE @]
        /\ UploaderUnchanged

RemoveFile(name) ==
    /\ \E i \in 1 .. Len(uploader.uploadingFiles) : uploader.uploadingFiles[i].name = name
    /\ uploader' = [uploader EXCEPT
           !.uploadingFiles = SelectSeq(@, LAMBDA f : f.name # name)]
    /\ UploaderUnchanged

CloseModal ==
    /\ uploader.uploadingFiles # <<>>
    /\ uploader' = [uploader EXCEPT !.uploadingFiles = <<>>]
    /\ UploaderUnchanged

\* the dashboard's claims query receives the answer of GET /api/claims: the
\* list it shows, kept here as the status of each claim by identifier
DashboardData(c) ==
    /\ pending[c].op = "getAllClaims"
    /\ Done(c)
    /\ Respond(c, "getClaims", 0, 200, Absent, FALSE)
    /\ dashboard' = [dashboard EXCEPT ![c] = [i \in Ids |-> claims[i].status]]
    /\ UNCHANGED <<now, session, claims, created, result, uploader>>

\* the Review button, offered for a claim the dashboard shows as pending
\* while no request of the dashboard is in flight
HandleReview(c, id) ==
    /\ id \in 1 .. Len(dashboard[c])
    /\ dashboard[c][id] = "pending"
    /\ SetStatus(c, id, "reviewing")

\* the Approve button, offered for a claim shown as pending or reviewing
HandleApprove(c, id) ==
    /\ id \in 1 .. Len(dashboard[c])
    /\ dashboard[c][id] \in {"pending", "reviewing"}
    /\ SetStatus(c, id, "approved")

\* the update statement and the response of PATCH /api/claims/:id/status as
\* the dashboard's mutation receives it: on success the claims query is
\* invalidated and fetched again
UpdateStatusMutationDone(c) ==
    LET op == pending[c]
    IN  /\ op.op = "updateClaimStatus"
        /\ claims' = UpdateClaimStatus(claims, op.id, op.status, op.updatedAt)
        /\ IF op.id \in Ids
              THEN /\ Respond(c, "setStatus", op.id, 200, claims[op.id].status, op.overlap)
                   /\ Send(c, [ op |-> "getAllClaims" ])
              ELSE /\ Respond(c, "setStatus", op.id, 404, Absent, op.overlap)
                   /\ Done(c)
        /\ UNCHANGED <<now, session, created, result, client>>

Database ==
    \/ \E c \in Callers : DbInsertClaim(c)
    \/ \E c \in Callers : DbUpdateClaimStatus(c)
    \/ \E c \in Callers : DbUpdateClaimEvidenceFiles(c)

----------------------------------------------------------------------------
(* Lifecycle runs: a customer, a processor and an anonymous caller, one      *)
(* request at a time                                                        *)

LifecycleCallers == {"john", "mike", "anon"}

Next ==
    \/ \E t \in Instants : Tick(t)
    \/ \E c \in LifecycleCallers, body \in ClaimBodies : Quiet /\ CreateClaim(c, body)
    \/ \E c \in LifecycleCallers, id \in RequestIds, st \in LifecycleStatuses :
            Quiet /\ SetStatus(c, id, st)
    \/ \E c \in LifecycleCallers, id \in RequestIds, f \in {<<"photo.jpg">>, NotAnArray} :
            Quiet /\ AttachEvidence(c, id, f)
    \/ Database

Spec == Init /\ [][Next]_vars

(* Concurrent intake: two customers submit at once while a processor works *)

NextNumbers ==
    \/ \E t \in Instants : Tick(t)
    \/ \E c \in {"john", "sarah"}, body \in RaceBodies : CreateClaim(c, body)
    \/ \E id \in RequestIds : SetStatus("mike", id, "approved")
    \/ \E id \in RequestIds : AttachEvidence("mike", id, <<"photo.jpg">>)
    \/ Database

SpecNumbers == Init /\ [][NextNumbers]_vars

(* Concurrent review: two processors work on the claims at once; no         *)
(* evidence request is issued, so only the insert and the status update     *)
(* statements run                                                           *)

NextRace ==
    \/ \E t \in Instants : Tick(t)
    \/ \E body \in RaceBodies : CreateClaim("john", body)
    \/ \E c \in {"mike", "emma"}, id \in RequestIds, st \in RaceStatuses : SetStatus(c, id, st)
    \/ \E c \in Callers : DbInsertClaim(c)
    \/ \E c \in Callers : DbUpdateClaimStatus(c)

SpecRace == Init /\ [][NextRace]_vars

(* Review: a processor moves the customer's claims through every status of  *)
(* the state set, one request at a time                                     *)

NextTransitions ==
    \/ \E t \in Instants : Tick(t)
    \/ \E body \in RaceBodies : Quiet /\ CreateClaim("john", body)
    \/ \E id \in RequestIds, st \in DefinedStatuses : Quiet /\ SetStatus("mike", id, st)
    \/ \E c \in Callers : DbInsertClaim(c)
    \/ \E c \in Callers : DbUpdateClaimStatus(c)

SpecTransitions == Init /\ [][NextTransitions]_vars

(* Service: every operation, one request at a time                          *)

Reads ==
    \/ \E c \in Callers : DbGetClaimById(c)
    \/ \E c \in Callers : DbGetAllClaims(c)

NextService ==
    \/ \E t \in Instants : Tick(t)
    \/ \E body \in RaceBodies : Quiet /\ CreateClaim("john", body)
    \/ \E id \in RequestIds : Quiet /\ SetStatus("mike", id, "approved")
    \/ \E id \in RequestIds, f \in {UploadedFiles, NotAnArray} :
            Quiet /\ AttachEvidence("john", id, f)
    \/ \E id \in RequestIds : Quiet /\ GetClaim("anon", id)
    \/ \E c \in {"john", "mike"} : Quiet /\ GetClaims(c)
    \/ \E r \in {"faulty-goods", Absent} :
            Quiet /\ EligibilityCheck("anon", 2500000, <<BaseDay - 137, 0>>, r)
    \/ Database
    \/ Reads

SpecService == Init /\ [][NextService]_vars

(* Overlap: the customer uploads evidence while the processor approves      *)

NextOverlap ==
    \/ \E t \in Instants : Tick(t)
    \/ \E body \in RaceBodies : CreateClaim("john", body)
    \/ \E id \in RequestIds : SetStatus("mike", id, "approved")
    \/ \E id \in RequestIds : AttachEvidence("john", id, UploadedFiles)
    \/ Database

SpecOverlap == Init /\ [][NextOverlap]_vars

(* Uploader: the evidence uploader of the intake page, on its own           *)

NextUploader ==
    \/ \E sel \in Selections : HandleFileSelect(sel)
    \/ BeginUpload
    \/ \E ok \in BOOLEAN : EndUpload(ok)
    \/ CompleteTimeout
    \/ \E i \in 1 .. 3 : RemoveFile(FileNames[i])
    \/ CloseModal

SpecUploader == Init /\ [][NextUploader]_vars

(* Dashboards: two processors work through the buttons of the manager       *)
(* dashboard, each on the claim list the page fetched last                  *)

NextDashboard ==
    \/ \E t \in Instants : Tick(t)
    \/ \E body \in RaceBodies : CreateClaim("john", body)
    \/ \E c \in {"mike", "emma"} : GetClaims(c)
    \/ \E c \in {"mike", "emma"}, id \in RequestIds : HandleReview(c, id)
    \/ \E c \in {"mike", "emma"}, id \in RequestIds : HandleApprove(c, id)
    \/ \E c \in Callers : DbInsertClaim(c)
    \/ \E c \in Callers : DashboardData(c)
    \/ \E c \in Callers : UpdateStatusMutationDone(c)

SpecDashboard == Init /\ [][NextDashboard]_vars

(* Intake: callers of every kind submit, log out and log in again           *)

NextIntake ==
    \/ \E t \in Instants : Tick(t)
    \/ \E c \in LifecycleCallers, body \in IntakeBodies : CreateClaim(c, body)
    \/ \E c \in LifecycleCallers, ok \in BOOLEAN : Login(c, ok)
    \/ \E c \in LifecycleCallers : Logout(c)
    \/ \E c \in Callers : DbInsertClaim(c)

SpecIntake == Init /\ [][NextIntake]_vars

(* Evaluation: the eligibility check over the amounts, dates and reasons    *)

NextEligibility ==
    \/ \E t \in Instants : Tick(t)
    \/ \E a \in CheckAmounts, d \in CheckDates, r \in CheckReasons :
            EligibilityCheck("anon", a, d, r)

SpecEligibility == Init /\ [][NextEligibility]_vars

----------------------------------------------------------------------------
(* Steps, as seen from outside *)

\* caller c's status request is accepted and its update statement issued
StatusAdmitted(c) ==
    pending[c] = None /\ pending'[c] # None /\ pending'[c].op = "updateClaimStatus"

\* caller c's status request is turned away before any statement is issued
StatusRefused(c) ==
    /\ pending' = pending /\ last' # last
    /\ last'.caller = c /\ last'.op = "setStatus"

\* caller c's update statement is applied and answered
StatusApplied(c) ==
    pending[c] # None /\ pending[c].op = "updateClaimStatus" /\ pending'[c] = None

StatusStep(c) == StatusAdmitted(c) \/ StatusRefused(c) \/ StatusApplied(c)

\* caller c's submission is accepted and its insert statement issued
CreateAdmitted(c) ==
    pending[c] = None /\ pending'[c] # None /\ pending'[c].op = "insertClaim"

\* caller c's submission is turned away before any statement is issued
CreateRefused(c) ==
    /\ pending' = pending /\ last' # last
    /\ last'.caller = c /\ last'.op = "createClaim"

\* caller c's evidence request is turned away before any statement is issued
EvidenceRefused(c) ==
    /\ pending' = pending /\ last' # last
    /\ last'.caller = c /\ last'.op = "attachEvidence"

\* caller c's evidence update statement is applied and answered
EvidenceApplied(c) ==
    pending[c] # None /\ pending[c].op = "updateClaimEvidenceFiles" /\ pending'[c] = None

\* every row but row id is the same before and after
OthersUnchanged(id) ==
    /\ Len(claims') = Len(claims)
    /\ \A i \in Ids : i # id => claims'[i] = claims[i]

----------------------------------------------------------------------------
(* Claims *)

\* C1: only a processor's setStatus goes through. A status request of a
\* caller whose session has the customer role is answered 403 (Forbidden) and
\* changes no claim and issues no statement; a request that is admitted comes
\* from a session with the processor role, and a processor's update of a
\* pending claim to approved is answered 200 and leaves the claim approved.
C1_OnlyProcessorSetsStatus ==
    [][ \A c \in Callers :
          /\ StatusAdmitted(c) => session[c].role = "Claim Processor"
          /\ (StatusStep(c) /\ session[c].role = "Customer") =>
                /\ last'.code = 403
                /\ claims' = claims
                /\ pending' = pending
          /\ ( /\ StatusApplied(c)
               /\ pending[c].id \in Ids
               /\ claims[pending[c].id].status = "pending"
               /\ pending[c].status = "approved" ) =>
                /\ last'.code = 200
                /\ claims'[pending[c].id].status = "approved"
      ]_vars

\* C1 witness: a processor has approved a claim, and the customer's status
\* request on a pending claim has just been answered 403
C1_Witness ==
    /\ last.caller = "john" /\ last.op = "setStatus" /\ last.code = 403
    /\ last.id \in Ids /\ claims[last.id].status = "pending"
    /\ \E i \in Ids : claims[i].status = "approved"

\* C2: the status of every persisted claim is one of pending, reviewing,
\* approved, rejected, under-review
C2_StatusInDefinedSet ==
    \A i \in Ids : claims[i].status \in DefinedStatuses

\* C3: every failure of setStatus has its own outcome and changes no claim:
\* a session with another role than processor gets 403, a processor's request
\* that is turned away (only a missing status is) gets 400 and a request with
\* a missing status is never issued as a statement, an update of an unknown
\* identifier gets 404; after 400, 403 or 404 the table is what it was.
C3_FailuresDistinct ==
    /\ [](\A o \in Ops : o.op = "updateClaimStatus" => o.status # Absent)
    /\ [][ \A c \in Callers : StatusStep(c) =>
             /\ (session[c].role \notin {"Claim Processor", "none"}) => last'.code = 403
             /\ (session[c].role = "Claim Processor" /\ StatusRefused(c)) => last'.code = 400
             /\ (StatusApplied(c) /\ pending[c].id \notin Ids) => last'.code = 404
             /\ (StatusApplied(c) /\ pending[c].id \in Ids) => last'.code = 200
             /\ last'.code \in {400, 403, 404} => claims' = claims
         ]_vars

\* C3 witness: an update of an identifier no claim has was answered 404
\* while a claim exists
C3_Witness ==
    /\ last.op = "setStatus" /\ last.code = 404
    /\ last.id \notin Ids /\ Len(claims) >= 1

\* C4: a successful setStatus changes the status and the modification
\* timestamp of its claim and nothing else: every other field of the claim
\* and every other claim are unchanged.
C4_StatusFrame ==
    [][ \A c \in Callers : (StatusApplied(c) /\ pending[c].id \in Ids) =>
          LET id == pending[c].id
          IN  /\ OthersUnchanged(id)
              /\ claims'[id] = [ claims[id] EXCEPT !.status = claims'[id].status,
                                                   !.updatedAt = claims'[id].updatedAt ]
      ]_vars

\* C4 witness: a status update has succeeded on a claim with evidence while
\* another claim exists
C4_Witness ==
    /\ last.op = "setStatus" /\ last.code = 200
    /\ Len(claims) = 2
    /\ claims[last.id].evidenceFiles # <<>>
    /\ claims[last.id].status # last.prior

\* C5: setting the status a claim already has is accepted (200) and leaves
\* the claim as it was except for the modification timestamp, which is
\* written again with the time of the request.
C5_Idempotent ==
    [][ \A c \in Callers :
          ( /\ StatusApplied(c)
            /\ pending[c].id \in Ids
            /\ claims[pending[c].id].status = pending[c].status ) =>
          LET id == pending[c].id
          IN  /\ last'.code = 200
              /\ claims'[id] = [ claims[id] EXCEPT !.updatedAt = pending[c].updatedAt ]
              /\ OthersUnchanged(id)
      ]_vars

\* C5 witness: a claim was set to approved and then set to approved again
\* at a later time
C5_Witness ==
    /\ last.op = "setStatus" /\ last.code = 200
    /\ last.prior = "approved"
    /\ claims[last.id].status = "approved"
    /\ TimeLess(claims[last.id].createdAt, claims[last.id].updatedAt)

\* C6: the nine eligibility checks, isEligible and the class of a claim
\* loaded from storage are those stored when the claim was created, whatever
\* status and evidence updates came in between.
C6_EligibilityImmutable ==
    \A i \in Ids :
        LET loaded == GetClaimById(i)
        IN  /\ loaded.eligibilityChecks = created[i].row.eligibilityChecks
            /\ loaded.isEligible = created[i].row.isEligible
            /\ loaded.claimClass = created[i].row.claimClass

\* C6 witness: a claim whose status and evidence were both updated after
\* its creation
C6_Witness ==
    \E i \in Ids :
        /\ claims[i].status # created[i].row.status
        /\ claims[i].evidenceFiles # created[i].row.evidenceFiles
        /\ claims[i].updatedAt # claims[i].createdAt

\* C7: a claim is inserted with status pending, with the eligibility
\* computed from the submitted amount, date and reason at the time of the
\* request, and with the class of the submitted amount, whatever status,
\* checks, isEligible and class the request carries.
C7_CreateComputesServerSide ==
    \A i \in 1 .. Len(created) :
        LET row == created[i].row
            res == PerformEligibilityCheck(created[i].amount, row.transactionDate,
                                           row.reason, created[i].evalAt)
        IN  /\ row.status = "pending"
            /\ row.eligibilityChecks = res.checks
            /\ row.isEligible = res.isEligible
            /\ row.claimClass = CalculateClaimClass(created[i].amount)
            /\ row.isEligible = (row.reason = "faulty-goods")
            /\ row.claimClass = (IF created[i].amount = 2500000 THEN "Class 2" ELSE "Unclassified")

\* C7 witness: both kinds of submission are stored, an eligible Class 2 claim
\* (no request carries that class) and an ineligible unclassified one whose
\* stored amount rounds to 100.00 pounds
C7_Witness ==
    /\ \E i \in Ids : claims[i].claimClass = "Class 2" /\ claims[i].isEligible
    /\ \E i \in Ids : /\ claims[i].claimClass = "Unclassified" /\ ~claims[i].isEligible
                      /\ claims[i].transactionAmount = 100000
                      /\ claims[i].eligibilityChecks.wasCreditCardUsed

\* C8: no two persisted claims have the same claim number, and the claim
\* number of a claim is the one it was created with.
C8_ClaimNumbersUnique ==
    /\ \A i, j \in Ids : i # j => claims[i].claimNumber # claims[j].claimNumber
    /\ \A i \in Ids : claims[i].claimNumber = created[i].row.claimNumber

\* C8 witness: a second submission that produced the number of an existing
\* claim was turned away by the insert
C8_Witness ==
    /\ last.op = "createClaim" /\ last.code = 500
    /\ Len(claims) >= 1

\* C9: an insert that fails on the uniqueness of the claim number is not
\* answered as an internal error (500).
C9_ConflictNotInternalError ==
    [][ \A c \in Callers :
          ( /\ pending[c] # None /\ pending[c].op = "insertClaim" /\ pending'[c] = None
            /\ UniqueViolation(claims, pending[c].values) ) => last'.code # 500
      ]_vars

\* C10: status updates are last-write-wins per claim. Every update statement
\* that reaches an existing claim is answered 200 and leaves the claim with
\* exactly the requested status and the request's timestamp, all other fields
\* as they were, whatever other updates were applied since it was requested;
\* and no other step changes the status of the claim.
C10_LastWriteWins ==
    [][ \A id \in Ids :
          LET appliers == { c \in Callers : StatusApplied(c) /\ pending[c].id = id }
          IN  IF appliers # {}
                THEN \A c \in appliers :
                        /\ last'.code = 200
                        /\ claims'[id] = [ claims[id] EXCEPT !.status = pending[c].status,
                                                             !.updatedAt = pending[c].updatedAt ]
                ELSE claims'[id].status = claims[id].status
      ]_vars

\* C10 witness: two updates of one claim to different statuses were in flight
\* together, both are applied, and the claim has the status of the second
C10_Witness ==
    /\ last.op = "setStatus" /\ last.code = 200 /\ last.overlap
    /\ last.prior \in RaceStatuses
    /\ claims[last.id].status \in RaceStatuses \ {last.prior}
    /\ \A o \in Ops : o.op = "updateClaimStatus" => o.id # last.id

\* C11: approved and rejected are terminal: a claim whose status is approved
\* or rejected keeps that status in every later step.
C11_TerminalStatusKept ==
    [][ \A i \in Ids : claims[i].status \in {"approved", "rejected"} =>
            claims'[i].status = claims[i].status
      ]_vars

\* C12: no transition is refused for its source or target: a processor's
\* request naming a status of the state set is never turned away, and when its
\* update reaches a claim that is pending or reviewing it is answered 200 and
\* the claim has the requested status.
C12_NoTransitionRefused ==
    [][ \A c \in Callers :
          /\ (StatusStep(c) /\ session[c].role = "Claim Processor") => ~StatusRefused(c)
          /\ ( /\ StatusApplied(c)
               /\ pending[c].id \in Ids
               /\ claims[pending[c].id].status \in {"pending", "reviewing"}
               /\ pending[c].status \in DefinedStatuses ) =>
                /\ last'.code = 200
                /\ claims'[pending[c].id].status = pending[c].status
      ]_vars

\* C12 witness: a claim under review was moved back to pending while the
\* other claim, once pending, is rejected
C12_Witness ==
    /\ last.op = "setStatus" /\ last.code = 200
    /\ last.prior = "reviewing"
    /\ claims[last.id].status = "pending"
    /\ \E i \in Ids : claims[i].status = "rejected"

\* C13: no claim created and updated through the service has the status
\* under-review.
C13_UnderReviewUnreachable ==
    \A i \in Ids : claims[i].status # "under-review"

\* C14: evidence changes only before a terminal status: the evidence list of
\* a claim whose status is approved or rejected is the same after every step.
C14_EvidenceFrozenWhenTerminal ==
    [][ \A i \in Ids : claims[i].status \in {"approved", "rejected"} =>
            claims'[i].evidenceFiles = claims[i].evidenceFiles
      ]_vars

\* C15: setStatus is the only mutator of status after creation: every step
\* that leaves a persisted claim with another status is the application of a
\* status update on that claim, answered 200; evidence updates, claim reads,
\* listing and eligibility checks leave every status as it was.
C15_StatusChangedOnlyBySetStatus ==
    [][ /\ \A i \in Ids : claims'[i].status # claims[i].status =>
              \E c \in Callers : /\ StatusApplied(c) /\ pending[c].id = i
                                  /\ last'.code = 200
        /\ (last' # last /\ last'.op \in {"attachEvidence", "getClaim", "getClaims",
                                            "eligibilityCheck"}) =>
              /\ Len(claims') = Len(claims)
              /\ \A i \in Ids : claims'[i].status = claims[i].status
      ]_vars

\* C15 witness: an approved claim, whose evidence was replaced after the
\* approval and an eligibility check was answered, is read back as approved
C15_Witness ==
    /\ last.op = "getClaim" /\ last.code = 200 /\ last.prior = "approved"
    /\ claims[last.id].evidenceFiles = UploadedFiles
    /\ claims[last.id].status = "approved"
    /\ result # NoResult

\* C16: an evidence update that reaches an existing claim is answered 200 and
\* leaves the claim with exactly the supplied list, whatever its elements, and
\* the request's timestamp, every other field and claim as before; an update
\* of an unknown identifier is answered 404, a files value that is not a list
\* is answered 400 and never issued as a statement, and after 400 or 404 the
\* table is what it was.
C16_AttachEvidenceReplaces ==
    /\ [](\A o \in Ops : o.op = "updateClaimEvidenceFiles" => o.files # NotAnArray)
    /\ [][ \A c \in Callers :
             /\ (EvidenceApplied(c) /\ pending[c].id \in Ids) =>
                   LET id == pending[c].id
                   IN  /\ last'.code = 200
                       /\ claims'[id] = [ claims[id] EXCEPT
                                            !.evidenceFiles = pending[c].files,
                                            !.updatedAt = pending[c].updatedAt ]
                       /\ OthersUnchanged(id)
             /\ (EvidenceApplied(c) /\ pending[c].id \notin Ids) =>
                   last'.code = 404 /\ claims' = claims
             /\ EvidenceRefused(c) => last'.code = 400 /\ claims' = claims
         ]_vars

\* C16 witness: a claim created with a receipt has, after an upload at a
\* later time, the two uploaded references in the order sent and the later
\* modification timestamp
C16_Witness ==
    /\ last.op = "attachEvidence" /\ last.code = 200
    /\ created[last.id].row.evidenceFiles = <<"receipt.pdf">>
    /\ claims[last.id].evidenceFiles = <<"photo.jpg", "">>
    /\ TimeLess(claims[last.id].createdAt, claims[last.id].updatedAt)

\* C17: every answer of the eligibility check carries all nine checks, each
\* a boolean; isEligible is true exactly when all nine are true, and the
\* verdict formed of the nine with any single one set to false is false.
C17_NineChecksAndVerdict ==
    result # NoResult =>
        LET leaves == { "isPurchaseOfGoodsOrServices", "isNotRestrictedTransaction",
                        "wasCreditCardUsed", "wasNotCashOrTransfer",
                        "overHundredPounds", "underThirtyThousandPounds",
                        "withinSixYears", "isValidReason", "isNotChangeOfMind" }
        IN  /\ DOMAIN result.checks = leaves
            /\ \A l \in leaves : result.checks[l] \in BOOLEAN
            /\ result.isEligible = (\A l \in leaves : result.checks[l])
            /\ \A l \in leaves : ~IsEligible([result.checks EXCEPT ![l] = FALSE])

\* C17 witness: an answer in which the value checks fail and the age and
\* reason checks, which come later, are reported as failed too
C17_Witness ==
    /\ result # NoResult /\ ~result.isEligible
    /\ ~result.checks.overHundredPounds
    /\ ~result.checks.withinSixYears
    /\ ~result.checks.isNotChangeOfMind
    /\ result.checks.wasNotCashOrTransfer

\* C18: the class of every amount is the one of the table: Class 1 for
\* [100, 1000), Class 2 for [1000, 5000), Class 3 for [5000, 10000), Class 4
\* for [10000, 30000], Unclassified for every other amount, negative, zero
\* and not-a-number included.
C18_ClassifyTable ==
    result # NoResult =>
        LET a == result.amount
        IN  /\ result.claimClass \in {"Class 1", "Class 2", "Class 3", "Class 4", "Unclassified"}
            /\ result.claimClass =
                  ( IF a = NaN THEN "Unclassified"
                    ELSE IF a < 100000 THEN "Unclassified"
                    ELSE IF a < 1000000 THEN "Class 1"
                    ELSE IF a < 5000000 THEN "Class 2"
                    ELSE IF a < 10000000 THEN "Class 3"
                    ELSE IF a < 30000001 THEN "Class 4"
                    ELSE "Unclassified" )
            /\ a = 100000 => result.claimClass = "Class 1"
            /\ a = 1000000 => result.claimClass = "Class 2"
            /\ a = 5000000 => result.claimClass = "Class 3"
            /\ a \in {10000000, 30000000} => result.claimClass = "Class 4"

\* C18 witness: the amount 30000 pounds was classified Class 4
C18_Witness ==
    result.amount = 30000000 /\ result.claimClass = "Class 4"

\* C19: overHundredPounds is reported true exactly for amounts of at least
\* 100 pounds and underThirtyThousandPounds exactly for amounts of at most
\* 30000 pounds; 100 and 30000 pounds pass both.
C19_ValueBoundsInclusive ==
    result # NoResult =>
        LET a == result.amount
        IN  /\ result.checks.overHundredPounds = (a # NaN /\ ~(a < 100000))
            /\ result.checks.underThirtyThousandPounds = (a # NaN /\ ~(a > 30000000))
            /\ a \in {100000, 30000000} =>
                  /\ result.checks.overHundredPounds
                  /\ result.checks.underThirtyThousandPounds

\* C19 witness: exactly 100 pounds passed both value checks
C19_Witness ==
    /\ result.amount = 100000
    /\ result.checks.overHundredPounds /\ result.checks.underThirtyThousandPounds

\* C20: withinSixYears is reported true exactly when the evaluation time is
\* at most 2190 days after the transaction date.
C20_SixYearsIs2190Days ==
    result # NoResult =>
        result.checks.withinSixYears = TimeLeq(result.at, AddTime(result.date, <<2190, 0>>))

\* C20 witness: a transaction made 2190 days before the evaluation, to the
\* millisecond, is within the period
C20_Witness ==
    /\ result.at = StartTime
    /\ result.date = <<StartTime[1] - 2190, StartTime[2]>>
    /\ result.checks.withinSixYears

\* C21: the eligibility check answers every request that names a reason
\* (200, with the reason it was given); isValidReason is reported true exactly
\* for faulty-goods, misrepresentation, non-delivery and supplier-failure, and
\* isNotChangeOfMind exactly for reasons other than change-of-mind, so an
\* unknown reason only makes isValidReason false and change-of-mind makes both
\* reason checks and isEligible false.
C21_ReasonChecks ==
    /\ [][ \A r \in CheckReasons \ {Absent} :
             EligibilityCheck("anon", result'.amount, result'.date, r) =>
                 last'.code = 200 /\ result'.reason = r /\ result'.at = now
         ]_vars
    /\ []( result # NoResult =>
             /\ result.checks.isValidReason =
                   (result.reason \in {"faulty-goods", "misrepresentation",
                                       "non-delivery", "supplier-failure"})
             /\ result.checks.isNotChangeOfMind = (result.reason # "change-of-mind")
             /\ result.reason = "other" =>
                   ~result.checks.isValidReason /\ result.checks.isNotChangeOfMind
             /\ result.reason = "change-of-mind" =>
                   /\ ~result.checks.isValidReason
                   /\ ~result.checks.isNotChangeOfMind
                   /\ ~result.isEligible )

\* C21 witness: a change-of-mind request over 500-odd pounds, recent, was
\* answered with both reason checks false and every other check true
C21_Witness ==
    /\ last.op = "eligibilityCheck" /\ last.code = 200
    /\ result.reason = "change-of-mind"
    /\ result.checks.overHundredPounds /\ result.checks.underThirtyThousandPounds
    /\ result.checks.withinSixYears
    /\ ~result.checks.isValidReason /\ ~result.checks.isNotChangeOfMind
    /\ ~result.isEligible

\* C22: the eligibility result is a function of amount, date and reason: a
\* check answered after another one for the same amount, date and reason
\* carries the same nine checks and the same verdict.
C22_SameInputsSameResult ==
    [][ ( /\ result # NoResult /\ result' # NoResult
          /\ result'.amount = result.amount
          /\ result'.date = result.date
          /\ result'.reason = result.reason ) =>
            /\ result'.checks = result.checks
            /\ result'.isEligible = result.isEligible
      ]_vars

\* C23: verdict and class agree on the range of amounts: below 100 pounds
\* overHundredPounds is false, above 30000 pounds underThirtyThousandPounds is
\* false, and in both cases isEligible is false and the class Unclassified;
\* every amount from 100 to 30000 pounds has one of the four classes; an
\* eligible result is never Unclassified.
C23_VerdictAndClassAgree ==
    result # NoResult =>
        LET a == result.amount
        IN  /\ (a # NaN /\ a < 100000) =>
                  /\ ~result.checks.overHundredPounds
                  /\ ~result.isEligible /\ result.claimClass = "Unclassified"
            /\ (a # NaN /\ a > 30000000) =>
                  /\ ~result.checks.underThirtyThousandPounds
                  /\ ~result.isEligible /\ result.claimClass = "Unclassified"
            /\ (a # NaN /\ a >= 100000 /\ a <= 30000000) =>
                  result.claimClass \in {"Class 1", "Class 2", "Class 3", "Class 4"}
            /\ result.isEligible => result.claimClass # "Unclassified"

\* C23 witness: an eligible result for exactly 100 pounds, in Class 1
C23_Witness ==
    /\ result.isEligible /\ result.amount = 100000
    /\ result.claimClass = "Class 1"

\* C24: every claim stored by createClaim has a non-negative amount and a
\* transaction date not later than the time at which it was evaluated.
C24_TransactionFactsInvariant ==
    \A i \in 1 .. Len(created) :
        /\ created[i].row.transactionAmount >= 0
        /\ TimeLeq(created[i].row.transactionDate, created[i].evalAt)

\* C30: a submission is accepted only from a session with the customer role.
\* A submission of a caller without a session, never logged in or logged out,
\* is answered 401, one of a processor's session 403, and neither issues a
\* statement nor changes the table; every logout leaves no session.
C30_OnlyCustomerCreates ==
    [][ \A c \in Callers :
          /\ CreateAdmitted(c) => session[c].role = "Customer"
          /\ ((CreateAdmitted(c) \/ CreateRefused(c)) /\ session[c] = NoSession) =>
                last'.code = 401 /\ claims' = claims /\ pending' = pending
          /\ ((CreateAdmitted(c) \/ CreateRefused(c))
                  /\ session[c].role = "Claim Processor") =>
                last'.code = 403 /\ claims' = claims /\ pending' = pending
          /\ Logout(c) => session'[c] = NoSession
          /\ Len(claims') > Len(claims) =>
                \E d \in Callers : pending[d] # None /\ pending[d].op = "insertClaim"
      ]_vars

\* C30 witness: the customer, whose earlier submission is stored, has logged
\* out and the submission made after that was answered 401
C30_Witness ==
    /\ last.caller = "john" /\ last.op = "createClaim" /\ last.code = 401
    /\ session["john"] = NoSession
    /\ Len(claims) = 1
    /\ session["mike"].role = "Claim Processor"

\* C25: a claim is never deleted: in every step the table keeps all its
\* rows, each with its identifier and claim number, and a claim once stored
\* is found by getClaimById with the number it was created with.
C25_NeverDeleted ==
    /\ [][ /\ Len(claims') >= Len(claims)
           /\ \A i \in Ids : claims'[i].claimNumber = claims[i].claimNumber
         ]_vars
    /\ [](\A i \in 1 .. Len(created) :
             /\ GetClaimById(i) # None
             /\ GetClaimById(i).claimNumber = created[i].row.claimNumber)

\* C25 witness: two claims are stored, and the first, approved and with
\* replaced evidence since, was just read back
C25_Witness ==
    /\ Len(claims) = 2
    /\ last.op = "getClaim" /\ last.code = 200 /\ last.id = 1
    /\ claims[1].status = "approved"
    /\ claims[1].evidenceFiles # created[1].row.evidenceFiles
    /\ claims[1].claimNumber # claims[2].claimNumber

\* C27: setStatus looks at the session and role first, then at the presence
\* of the status, then at the claim. A request without a status is answered
\* 401 without a session, 403 with another role than processor and 400 for a
\* processor, for known and unknown identifiers alike and with no statement
\* issued; a caller who is not a processor never gets another answer than 401
\* or 403; only a processor's request that names a status reaches the table,
\* where an unknown identifier is answered 404.
C27_ChecksInOrder ==
    [][ \A c \in Callers :
          /\ SetStatus(c, last'.id, Absent) =>
                /\ last'.code = ( IF session[c] = NoSession THEN 401
                                  ELSE IF session[c].role # "Claim Processor" THEN 403
                                  ELSE 400 )
                /\ claims' = claims /\ pending' = pending
          /\ (StatusStep(c) /\ session[c].role # "Claim Processor") =>
                StatusRefused(c) /\ last'.code \in {401, 403}
          /\ StatusApplied(c) =>
                /\ session[c].role = "Claim Processor"
                /\ pending[c].status # Absent
                /\ last'.code = (IF pending[c].id \in Ids THEN 200 ELSE 404)
      ]_vars

\* C27 witness: a processor's request without a status for an identifier no
\* claim has was answered 400
C27_Witness ==
    /\ last.caller = "mike" /\ last.op = "setStatus" /\ last.code = 400
    /\ last.id \notin Ids

\* C28: a status update and an evidence update of one claim do not undo each
\* other: the evidence update leaves the status as it finds it and stores its
\* list, the status update leaves the evidence as it finds it and stores its
\* status; so when an evidence update requested while an approval of the same
\* claim was in flight is the last to be answered and nothing more is in
\* flight for the claim, the claim is approved and has the uploaded list.
C28_NoLostUpdate ==
    /\ [][ \A c \in Callers :
             /\ (EvidenceApplied(c) /\ pending[c].id \in Ids) =>
                   /\ claims'[pending[c].id].status = claims[pending[c].id].status
                   /\ claims'[pending[c].id].evidenceFiles = pending[c].files
             /\ (StatusApplied(c) /\ pending[c].id \in Ids) =>
                   /\ claims'[pending[c].id].evidenceFiles = claims[pending[c].id].evidenceFiles
                   /\ claims'[pending[c].id].status = pending[c].status
         ]_vars
    /\ []( ( /\ last.op = "attachEvidence" /\ last.code = 200 /\ last.overlap
             /\ \A o \in Ops : o.op = "insertClaim" \/ o.id # last.id ) =>
               /\ claims[last.id].status = "approved"
               /\ claims[last.id].evidenceFiles = UploadedFiles )

\* C28 witness: the upload was requested while the approval of the claim was
\* in flight; both are done, the claim is approved and has the uploaded list
C28_Witness ==
    /\ last.op = "attachEvidence" /\ last.code = 200 /\ last.overlap
    /\ \A o \in Ops : o.op = "insertClaim" \/ o.id # last.id
    /\ claims[last.id].status = "approved"
    /\ claims[last.id].evidenceFiles = UploadedFiles
    /\ created[last.id].row.evidenceFiles = <<"receipt.pdf">>

\* C29: with the dashboards as the only source of status changes, the status
\* of a claim never moves backwards in the order pending, reviewing, approved.
C29_DashboardNeverBackwards ==
    [][ \A i \in Ids :
          LET rank(st) == CASE st = "pending" -> 0 [] st = "reviewing" -> 1
                            [] st = "approved" -> 2 [] OTHER -> 3
          IN  rank(claims'[i].status) >= rank(claims[i].status)
      ]_vars

\* the files of the current selection whose upload succeeded, as onComplete
\* is to receive them
SuccessfulUploads ==
    LET pick[i \in 0 .. Len(uploader.outcomes)] ==
          IF i = 0 THEN <<>>
          ELSE IF uploader.outcomes[i]
                 THEN Append(pick[i - 1], [ name |-> uploader.files[i].name,
                                            uploadURL |-> UploadURL(i) ])
                 ELSE pick[i - 1]
    IN  pick[Len(uploader.outcomes)]

\* C26: once every selected file has been processed and the completion timer
\* has run, onComplete has been called exactly once with exactly the files
\* whose upload succeeded, if there is one, and not at all otherwise.
C26_OnCompleteGetsSuccessful ==
    uploader.phase = "done" =>
        uploader.completions =
            IF SuccessfulUploads # <<>> THEN << SuccessfulUploads >> ELSE <<>>

TypeOK ==
    /\ now \in Instants
    /\ Len(claims) <= MaxClaims
    /\ Len(created) = Len(claims)

====
